---- MODULE Spec2Model ----
(***************************************************************************)
(* starknet.py: the transaction dataclasses of net/models/transaction.py   *)
(* (calculate_hash of every variant, the program-payload codec) and the    *)
(* typed-data helpers exercised by utils/typed_data_test.py.               *)
(*                                                                         *)
(* Field elements are symbolic: Felt(n) is the felt of the integer n,       *)
(* FieldHash(xs) the felt the external hash primitive returns for the      *)
(* element list xs (a free constructor: equal hashes iff equal lists).     *)
(***************************************************************************)
EXTENDS Integers, Sequences, FiniteSets, TLC

VARIABLES
    tx,             \* the Transaction object calculate_hash is called on
    chain_id,       \* the chain_id argument of the last calculate_hash call
    result,         \* what the last calculate_hash call returned or raised
    address_calls,  \* the compute_address calls the last calculate_hash made
    first_result,   \* per chain_id, what the first call on this object returned
    n_calls,        \* how many calculate_hash calls this object has served
    tx2,            \* a second Transaction object (two-object runs)
    result2,        \* what calculate_hash returned for tx2
    data,           \* the payload dict handed to the program codec
    codec_error,    \* the exception the last codec call raised, or "none"
    codec_calls,    \* the codec calls made so far: function, program before, outcome
    typed_data,     \* the TypedData object, or its construction outcome
    td_output,      \* what the last TypedData method returned
    hex_input,      \* the argument of get_hex
    hex_output      \* what get_hex returned or raised

vars == <<tx, chain_id, result, address_calls, first_result, n_calls, tx2, result2,
          data, codec_error, codec_calls, typed_data, td_output,
          hex_input, hex_output>>

tx_vars == <<tx, chain_id, result, address_calls, first_result, n_calls>>
pair_vars == <<tx2, result2>>
codec_vars == <<data, codec_error, codec_calls>>
typed_vars == <<typed_data, td_output>>
hex_vars == <<hex_input, hex_output>>

(***************************************************************************)
(* Bounds of the model.                                                    *)
(***************************************************************************)
MaxNonce == 1
MaxTip == 1
MaxCalls == 2
MaxCodecCalls == 2
MaxHexInt == 20

(***************************************************************************)
(* Field elements and the external primitives.                             *)
(***************************************************************************)
Felt(n) == <<"int", n>>

ShortString(s) == <<"shortstring", s>>

\* poseidon_hash_many / compute_hash_on_elements: the spec's FieldHash.
FieldHash(elements) == <<"hash", elements>>

\* the network-defined masking of a hash into the address space
reduceToAddressSpace(felt) == <<"address", felt>>

\* net/client_models.py: class TransactionType
TransactionType ==
    [DECLARE |-> "DECLARE", INVOKE |-> "INVOKE", DEPLOY_ACCOUNT |-> "DEPLOY_ACCOUNT"]

\* hash/transaction.py: class TransactionHashPrefix, the short strings
\* b"declare", b"invoke", b"deploy_account" read as big-endian integers.
TransactionHashPrefix ==
    [DECLARE |-> ShortString("declare"),
     INVOKE |-> ShortString("invoke"),
     DEPLOY_ACCOUNT |-> ShortString("deploy_account")]

\* the prefix constant that belongs to a TransactionType
PrefixOfType(type) ==
    CASE type = TransactionType.DECLARE -> TransactionHashPrefix.DECLARE
      [] type = TransactionType.INVOKE -> TransactionHashPrefix.INVOKE
      [] type = TransactionType.DEPLOY_ACCOUNT -> TransactionHashPrefix.DEPLOY_ACCOUNT

\* net/models/chains.py: class StarknetChainId
StarknetChainId == {ShortString("SN_MAIN"), ShortString("SN_SEPOLIA")}

\* net/client_models.py: class DAMode
DAMode == {"L1", "L2"}

\* hash/sierra_class_hash.py and hash/class_hash.py: the hash of a contract class
compute_class_hash(contract_class) == FieldHash(<<ShortString("class"), Felt(contract_class)>>)

(***************************************************************************)
(* AddressDeriver (hash/address.py: compute_address).                      *)
(***************************************************************************)
compute_address(salt, class_hash, constructor_calldata, deployer_address) ==
    reduceToAddressSpace(
        FieldHash(<<deployer_address, salt, class_hash, FieldHash(constructor_calldata)>>))

\* the record of one compute_address call: its keyword arguments
AddressCall(salt, class_hash, constructor_calldata, deployer_address) ==
    [salt |-> salt, class_hash |-> class_hash,
     constructor_calldata |-> constructor_calldata,
     deployer_address |-> deployer_address]

(***************************************************************************)
(* TransactionPreimageBuilder (hash/transaction.py).                       *)
(***************************************************************************)
Hash(preimage) == [kind |-> "hash", preimage |-> preimage, hash |-> FieldHash(preimage)]

Raise(error) == [kind |-> "error", error |-> error]

NoResult == [kind |-> "none"]

CommonTransactionV3Fields(tx_prefix, version, address, tip, resource_bounds, paymaster_data, chain, nonce, nonce_data_availability_mode, fee_data_availability_mode) ==
    [tx_prefix |-> tx_prefix, version |-> version, address |-> address, tip |-> tip,
     resource_bounds |-> resource_bounds, paymaster_data |-> paymaster_data,
     chain_id |-> chain, nonce |-> nonce,
     nonce_data_availability_mode |-> nonce_data_availability_mode,
     fee_data_availability_mode |-> fee_data_availability_mode]

\* one resource's bounds packed into a felt: (resource name, max_amount, max_price_per_unit)
ResourceBoundsFor(resource_bounds, resource) ==
    <<"bounds", resource, resource_bounds[resource].max_amount,
      resource_bounds[resource].max_price_per_unit>>

\* pack(nonceDAMode, feeDAMode)
PackDAModes(nonce_mode, fee_mode) == <<"da_modes", nonce_mode, fee_mode>>

\* the V3 common prefix of the preimage
prepare_data_for_hash(common_fields) ==
    <<common_fields.tx_prefix,
      Felt(common_fields.version),
      common_fields.address,
      FieldHash(<<common_fields.tip,
                  ResourceBoundsFor(common_fields.resource_bounds, "l1_gas"),
                  ResourceBoundsFor(common_fields.resource_bounds, "l2_gas")>>),
      FieldHash(common_fields.paymaster_data),
      common_fields.chain_id,
      common_fields.nonce,
      PackDAModes(common_fields.nonce_data_availability_mode,
                  common_fields.fee_data_availability_mode)>>

\* the versions each preimage rule recognises
LegacyVersions == {0, 1}
DeclareV2Versions == {2}
V3Versions == {3}

compute_declare_v3_transaction_hash(account_deployment_data, contract_class, compiled_class_hash, common_fields) ==
    IF common_fields.version \notin V3Versions
    THEN Raise("UnsupportedVariant")
    ELSE Hash(prepare_data_for_hash(common_fields)
              \o <<FieldHash(account_deployment_data),
                   compute_class_hash(contract_class),
                   compiled_class_hash>>)

compute_invoke_v3_transaction_hash(account_deployment_data, calldata, common_fields) ==
    IF common_fields.version \notin V3Versions
    THEN Raise("UnsupportedVariant")
    ELSE Hash(prepare_data_for_hash(common_fields)
              \o <<FieldHash(account_deployment_data), FieldHash(calldata)>>)

compute_deploy_account_v3_transaction_hash(class_hash, constructor_calldata, contract_address_salt, common_fields) ==
    IF common_fields.version \notin V3Versions
    THEN Raise("UnsupportedVariant")
    ELSE Hash(prepare_data_for_hash(common_fields)
              \o <<FieldHash(constructor_calldata), class_hash, contract_address_salt>>)

\* the legacy rule: [prefix, version, address, FieldHash(calldata), max_fee, chain_id, nonce]
compute_transaction_hash(tx_prefix, version, address, calldata, max_fee, chain, additional_data) ==
    <<tx_prefix, Felt(version), address, FieldHash(calldata), max_fee, chain>>
    \o additional_data

compute_invoke_transaction_hash(version, sender_address, calldata, max_fee, chain, nonce) ==
    IF version \notin LegacyVersions
    THEN Raise("UnsupportedVariant")
    ELSE Hash(compute_transaction_hash(TransactionHashPrefix.INVOKE, version,
                                       sender_address, calldata, max_fee, chain,
                                       <<nonce>>))

compute_declare_transaction_hash(contract_class, chain, sender_address, max_fee, version, nonce) ==
    IF version \notin LegacyVersions
    THEN Raise("UnsupportedVariant")
    ELSE Hash(compute_transaction_hash(TransactionHashPrefix.DECLARE, version,
                                       sender_address,
                                       <<compute_class_hash(contract_class)>>,
                                       max_fee, chain, <<nonce>>))

compute_declare_v2_transaction_hash(contract_class, compiled_class_hash, chain, sender_address, max_fee, version, nonce) ==
    IF version \notin DeclareV2Versions
    THEN Raise("UnsupportedVariant")
    ELSE Hash(compute_transaction_hash(TransactionHashPrefix.DECLARE, version,
                                       sender_address,
                                       <<compute_class_hash(contract_class)>>,
                                       max_fee, chain, <<nonce, compiled_class_hash>>))

compute_deploy_account_transaction_hash(version, contract_address, class_hash, constructor_calldata, max_fee, nonce, salt, chain) ==
    IF version \notin LegacyVersions
    THEN Raise("UnsupportedVariant")
    ELSE Hash(compute_transaction_hash(TransactionHashPrefix.DEPLOY_ACCOUNT, version,
                                       contract_address,
                                       <<class_hash, salt>> \o constructor_calldata,
                                       max_fee, chain, <<nonce>>))

(***************************************************************************)
(* The Transaction dataclasses (net/models/transaction.py).  A transaction *)
(* is a record of its dataclass fields, cls naming its class.  A method    *)
(* returns the object as the call leaves it, what the call returned or     *)
(* raised, and the compute_address calls it made.                          *)
(***************************************************************************)
Return(self, res, calls) == [self |-> self, result |-> res, address_calls |-> calls]

\* DeclareV3.calculate_hash
DeclareV3_calculate_hash(self, chain) ==
    Return(self,
           compute_declare_v3_transaction_hash(
               self.account_deployment_data, self.contract_class, self.compiled_class_hash,
               CommonTransactionV3Fields(
                   TransactionHashPrefix.DECLARE, self.version, self.sender_address,
                   self.tip, self.resource_bounds, self.paymaster_data, chain, self.nonce,
                   self.nonce_data_availability_mode, self.fee_data_availability_mode)),
           <<>>)

\* DeclareV2.calculate_hash
DeclareV2_calculate_hash(self, chain) ==
    Return(self,
           compute_declare_v2_transaction_hash(
               self.contract_class, self.compiled_class_hash, chain, self.sender_address,
               self.max_fee, self.version, self.nonce),
           <<>>)

\* Declare.calculate_hash
Declare_calculate_hash(self, chain) ==
    Return(self,
           compute_declare_transaction_hash(
               self.contract_class, chain, self.sender_address, self.max_fee,
               self.version, self.nonce),
           <<>>)


\* DeployAccountV3.calculate_hash with salt and class_hash handed to compute_address
\* in each other's place
DeployAccountV3_calculate_hash_swapped(self, chain) ==
    LET contract_address ==
            compute_address(self.class_hash, self.contract_address_salt,
                            self.constructor_calldata, Felt(0))
    IN  Return(self,
               compute_deploy_account_v3_transaction_hash(
                   self.class_hash, self.constructor_calldata, self.contract_address_salt,
                   CommonTransactionV3Fields(
                       TransactionHashPrefix.DECLARE, self.version, contract_address,
                       self.tip, self.resource_bounds, self.paymaster_data, chain,
                       self.nonce, self.nonce_data_availability_mode,
                       self.fee_data_availability_mode)),
               <<AddressCall(self.class_hash, self.contract_address_salt,
                             self.constructor_calldata, Felt(0))>>)

\* DeployAccountV3.calculate_hash
DeployAccountV3_calculate_hash(self, chain) ==
    LET contract_address ==
            compute_address(self.contract_address_salt, self.class_hash,
                            self.constructor_calldata, Felt(0))
    IN  Return(self,
               compute_deploy_account_v3_transaction_hash(
                   self.class_hash, self.constructor_calldata, self.contract_address_salt,
                   CommonTransactionV3Fields(
                       TransactionHashPrefix.DECLARE, self.version, contract_address,
                       self.tip, self.resource_bounds, self.paymaster_data, chain,
                       self.nonce, self.nonce_data_availability_mode,
                       self.fee_data_availability_mode)),
               <<AddressCall(self.contract_address_salt, self.class_hash,
                             self.constructor_calldata, Felt(0))>>)

\* DeployAccount.calculate_hash that appends the signature to the data it hashes
DeployAccount_calculate_hash_signed(self, chain) ==
    LET contract_address ==
            compute_address(self.contract_address_salt, self.class_hash,
                            self.constructor_calldata, Felt(0))
    IN  Return(self,
               compute_deploy_account_transaction_hash(
                   self.version, contract_address, self.class_hash,
                   self.constructor_calldata \o self.signature, self.max_fee, self.nonce,
                   self.contract_address_salt, chain),
               <<AddressCall(self.contract_address_salt, self.class_hash,
                             self.constructor_calldata, Felt(0))>>)

\* DeployAccount.calculate_hash
DeployAccount_calculate_hash(self, chain) ==
    LET contract_address ==
            compute_address(self.contract_address_salt, self.class_hash,
                            self.constructor_calldata, Felt(0))
    IN  Return(self,
               compute_deploy_account_transaction_hash(
                   self.version, contract_address, self.class_hash,
                   self.constructor_calldata, self.max_fee, self.nonce,
                   self.contract_address_salt, chain),
               <<AddressCall(self.contract_address_salt, self.class_hash,
                             self.constructor_calldata, Felt(0))>>)


\* InvokeV3.calculate_hash with the two data-availability modes handed over in each
\* other's place
InvokeV3_calculate_hash_modes_swapped(self, chain) ==
    Return(self,
           compute_invoke_v3_transaction_hash(
               self.account_deployment_data, self.calldata,
               CommonTransactionV3Fields(
                   TransactionHashPrefix.DECLARE, self.version, self.sender_address,
                   self.tip, self.resource_bounds, self.paymaster_data, chain, self.nonce,
                   self.fee_data_availability_mode, self.nonce_data_availability_mode)),
           <<>>)

\* InvokeV3.calculate_hash that counts the call in the object's nonce
InvokeV3_calculate_hash_writes_nonce(self, chain) ==
    Return([self EXCEPT !.nonce = Felt(self.nonce[2] + 1)],
           compute_invoke_v3_transaction_hash(
               self.account_deployment_data, self.calldata,
               CommonTransactionV3Fields(
                   TransactionHashPrefix.DECLARE, self.version, self.sender_address,
                   self.tip, self.resource_bounds, self.paymaster_data, chain, self.nonce,
                   self.nonce_data_availability_mode, self.fee_data_availability_mode)),
           <<>>)

\* InvokeV3.calculate_hash
InvokeV3_calculate_hash(self, chain) ==
    Return(self,
           compute_invoke_v3_transaction_hash(
               self.account_deployment_data, self.calldata,
               CommonTransactionV3Fields(
                   TransactionHashPrefix.DECLARE, self.version, self.sender_address,
                   self.tip, self.resource_bounds, self.paymaster_data, chain, self.nonce,
                   self.nonce_data_availability_mode, self.fee_data_availability_mode)),
           <<>>)


\* Invoke.calculate_hash that hands over the version the class was written for
\* instead of the object's own
Invoke_calculate_hash_fixed_version(self, chain) ==
    Return(self,
           compute_invoke_transaction_hash(
               1, self.sender_address, self.calldata, self.max_fee, chain, self.nonce),
           <<>>)

\* Invoke.calculate_hash
Invoke_calculate_hash(self, chain) ==
    Return(self,
           compute_invoke_transaction_hash(
               self.version, self.sender_address, self.calldata, self.max_fee, chain,
               self.nonce),
           <<>>)

\* Transaction.calculate_hash, dispatched on the class of self
calculate_hash(self, chain) ==
    CASE self.cls = "DeclareV3" -> DeclareV3_calculate_hash(self, chain)
      [] self.cls = "DeclareV2" -> DeclareV2_calculate_hash(self, chain)
      [] self.cls = "Declare" -> Declare_calculate_hash(self, chain)
      [] self.cls = "DeployAccountV3" -> DeployAccountV3_calculate_hash(self, chain)
      [] self.cls = "DeployAccount" -> DeployAccount_calculate_hash(self, chain)
      [] self.cls = "InvokeV3" -> InvokeV3_calculate_hash(self, chain)
      [] self.cls = "Invoke" -> Invoke_calculate_hash(self, chain)

(***************************************************************************)
(* The transactions the runs construct.                                    *)
(***************************************************************************)
Versions == {0, 1, 2, 3}
Nonces == {Felt(n) : n \in 0..MaxNonce}
Tips == {Felt(n) : n \in 0..MaxTip}
Signatures == {<<>>, <<Felt(1), Felt(2)>>}
FeltLists == {<<>>, <<Felt(1)>>}
SmallFelts == {Felt(1), Felt(2)}
ContractClasses == {1, 2}
ClassHashes == {compute_class_hash(c) : c \in ContractClasses}
\* an account's address: a plain felt, or the address a deployment derived
Addresses == {Felt(1), compute_address(Felt(1), compute_class_hash(1), <<>>, Felt(0))}

ResourceBounds(max_amount, max_price_per_unit) ==
    [max_amount |-> max_amount, max_price_per_unit |-> max_price_per_unit]

ResourceBoundsMappings ==
    {[l1_gas |-> ResourceBounds(a, 1), l2_gas |-> ResourceBounds(0, 0)] : a \in {1, 2}}

DeclareV3s ==
    [cls : {"DeclareV3"}, version : Versions, signature : Signatures, nonce : Nonces,
     sender_address : Addresses, compiled_class_hash : SmallFelts,
     contract_class : ContractClasses, resource_bounds : ResourceBoundsMappings,
     tip : Tips, nonce_data_availability_mode : DAMode,
     fee_data_availability_mode : DAMode, account_deployment_data : FeltLists,
     paymaster_data : FeltLists, type : {TransactionType.DECLARE}]

DeclareV2s ==
    [cls : {"DeclareV2"}, version : Versions, signature : Signatures, nonce : Nonces,
     max_fee : SmallFelts, contract_class : ContractClasses,
     compiled_class_hash : SmallFelts, sender_address : Addresses,
     type : {TransactionType.DECLARE}]

Declares ==
    [cls : {"Declare"}, version : Versions, signature : Signatures, nonce : Nonces,
     max_fee : SmallFelts, contract_class : ContractClasses, sender_address : Addresses,
     type : {TransactionType.DECLARE}]

DeployAccountV3s ==
    [cls : {"DeployAccountV3"}, version : Versions, signature : Signatures, nonce : Nonces,
     class_hash : ClassHashes, contract_address_salt : SmallFelts,
     constructor_calldata : FeltLists, resource_bounds : ResourceBoundsMappings,
     paymaster_data : FeltLists, fee_data_availability_mode : DAMode,
     nonce_data_availability_mode : DAMode, tip : Tips,
     type : {TransactionType.DEPLOY_ACCOUNT}]

DeployAccounts ==
    [cls : {"DeployAccount"}, version : Versions, signature : Signatures, nonce : Nonces,
     max_fee : SmallFelts, class_hash : ClassHashes, contract_address_salt : SmallFelts,
     constructor_calldata : FeltLists, type : {TransactionType.DEPLOY_ACCOUNT}]

InvokeV3s ==
    [cls : {"InvokeV3"}, version : Versions, signature : Signatures, nonce : Nonces,
     calldata : FeltLists, resource_bounds : ResourceBoundsMappings,
     sender_address : Addresses, account_deployment_data : FeltLists,
     paymaster_data : FeltLists, fee_data_availability_mode : DAMode,
     nonce_data_availability_mode : DAMode, tip : Tips, type : {TransactionType.INVOKE}]

Invokes ==
    [cls : {"Invoke"}, version : Versions, signature : Signatures, nonce : Nonces,
     max_fee : SmallFelts, sender_address : Addresses, calldata : FeltLists,
     type : {TransactionType.INVOKE}]

Transactions ==
    DeclareV3s \cup DeclareV2s \cup Declares \cup DeployAccountV3s \cup DeployAccounts
    \cup InvokeV3s \cup Invokes

V3Classes == {"DeclareV3", "InvokeV3", "DeployAccountV3"}
DeployAccountClasses == {"DeployAccount", "DeployAccountV3"}

\* the versions of the supported variants of each class
SupportedVersions(cls) ==
    CASE cls \in V3Classes -> {3}
      [] cls = "DeclareV2" -> {2}
      [] OTHER -> {0, 1}

NoTransaction == [cls |-> "none"]

(***************************************************************************)
(* Runs on one transaction object: it is constructed once, then            *)
(* calculate_hash is called on it any number of times.                     *)
(***************************************************************************)
IdleRest ==
    /\ tx2 = NoTransaction /\ result2 = NoResult
    /\ data = <<>> /\ codec_error = "none" /\ codec_calls = <<>>
    /\ typed_data = <<>> /\ td_output = <<>>
    /\ hex_input = <<>> /\ hex_output = <<>>

Init ==
    /\ tx \in Transactions
    /\ chain_id = "none"
    /\ result = NoResult
    /\ address_calls = <<>>
    /\ first_result = [c \in StarknetChainId |-> NoResult]
    /\ n_calls = 0
    /\ IdleRest

\* one call tx.calculate_hash(chain) whose outcome is out
Call(out, chain) ==
    /\ n_calls < MaxCalls
    /\ n_calls' = n_calls + 1
    /\ tx' = out.self
    /\ chain_id' = chain
    /\ result' = out.result
    /\ address_calls' = out.address_calls
    /\ first_result' = IF first_result[chain] = NoResult
                       THEN [first_result EXCEPT ![chain] = out.result]
                       ELSE first_result
    /\ UNCHANGED <<pair_vars, codec_vars, typed_vars, hex_vars>>

CallDeclareV3 ==
    \E c \in StarknetChainId : tx.cls = "DeclareV3" /\ Call(DeclareV3_calculate_hash(tx, c), c)

CallDeclareV2 ==
    \E c \in StarknetChainId : tx.cls = "DeclareV2" /\ Call(DeclareV2_calculate_hash(tx, c), c)

CallDeclare ==
    \E c \in StarknetChainId : tx.cls = "Declare" /\ Call(Declare_calculate_hash(tx, c), c)

CallDeployAccountV3 ==
    \E c \in StarknetChainId :
        tx.cls = "DeployAccountV3" /\ Call(DeployAccountV3_calculate_hash(tx, c), c)

CallDeployAccount ==
    \E c \in StarknetChainId :
        tx.cls = "DeployAccount" /\ Call(DeployAccount_calculate_hash(tx, c), c)

CallInvokeV3 ==
    \E c \in StarknetChainId : tx.cls = "InvokeV3" /\ Call(InvokeV3_calculate_hash(tx, c), c)

CallInvoke ==
    \E c \in StarknetChainId : tx.cls = "Invoke" /\ Call(Invoke_calculate_hash(tx, c), c)

Next ==
    \/ CallDeclareV3
    \/ CallDeclareV2
    \/ CallDeclare
    \/ CallDeployAccountV3
    \/ CallDeployAccount
    \/ CallInvokeV3
    \/ CallInvoke

Spec == Init /\ [][Next]_vars


(***************************************************************************)
(* The program-payload codec (compress_program, decompress_program) and    *)
(* the library steps it chains.  A str is a sequence of one-character      *)
(* strings, a bytes value a sequence of numbers 0..255.  A JSON value is   *)
(* tagged: <<"num", n>>, <<"str", chars>>, <<"lit", word>>, <<"arr",       *)
(* items>>, <<"obj", <<key, value>> pairs in insertion order>>.            *)
(***************************************************************************)
JNum(n) == <<"num", n>>
JStr(chars) == <<"str", chars>>
JLit(word) == <<"lit", word>>
JArr(items) == <<"arr", items>>
JObj(pairs) == <<"obj", pairs>>

Ok(value) == [ok |-> TRUE, value |-> value]
Error(name) == [ok |-> FALSE, error |-> name]

\* the printable ASCII characters, code 32 first (code 96 is written by name)
AsciiChars ==
    <<
      " ", "!", "\"", "#", "$", "%", "&", "'", "(", ")", "*", "+",
      ",", "-", ".", "/", "0", "1", "2", "3", "4", "5", "6", "7",
      "8", "9", ":", ";", "<", "=", ">", "?", "@", "A", "B", "C",
      "D", "E", "F", "G", "H", "I", "J", "K", "L", "M", "N", "O",
      "P", "Q", "R", "S", "T", "U", "V", "W", "X", "Y", "Z", "[",
      "\\", "]", "^", "_", "GRAVE", "a", "b", "c", "d", "e", "f", "g",
      "h", "i", "j", "k", "l", "m", "n", "o", "p", "q", "r", "s",
      "t", "u", "v", "w", "x", "y", "z", "{", "|", "}", "~"
    >>

AsciiCode == [c \in {AsciiChars[i] : i \in 1..Len(AsciiChars)} |->
                 31 + CHOOSE i \in 1..Len(AsciiChars) : AsciiChars[i] = c]

\* str.encode("ascii")
ascii_encode(chars) == [i \in 1..Len(chars) |-> AsciiCode[chars[i]]]

\* bytes.decode("ascii"): UnicodeDecodeError on a byte that is no ASCII character
\* (the model's characters are the printable ones)
ascii_decode(bytes) ==
    IF \E i \in 1..Len(bytes) : bytes[i] < 32 \/ bytes[i] > 126
    THEN Error("UnicodeDecodeError")
    ELSE Ok([i \in 1..Len(bytes) |-> AsciiChars[bytes[i] - 31]])

Digits == <<"0", "1", "2", "3", "4", "5", "6", "7", "8", "9">>
DigitChars == {Digits[i] : i \in 1..10}
DigitValue(c) == (CHOOSE i \in 1..10 : Digits[i] = c) - 1

\* str(n) for an int n >= 0
RECURSIVE int_to_text(_)
int_to_text(n) ==
    IF n < 10 THEN <<Digits[n + 1]>>
    ELSE int_to_text(n \div 10) \o <<Digits[(n % 10) + 1]>>

\* json.dumps of a str: quoted, with the quote and the backslash escaped
RECURSIVE json_escape(_)
json_escape(chars) ==
    IF chars = <<>> THEN <<>>
    ELSE (IF Head(chars) \in {"\"", "\\"} THEN <<"\\", Head(chars)>> ELSE <<Head(chars)>>)
         \o json_escape(Tail(chars))

\* json.dumps(value), with the default separators ", " and ": "
RECURSIVE json_dumps(_), json_dumps_items(_), json_dumps_members(_)
json_dumps(value) ==
    CASE value[1] = "num" -> int_to_text(value[2])
      [] value[1] = "str" -> <<"\"">> \o json_escape(value[2]) \o <<"\"">>
      [] value[1] = "lit" -> value[2]
      [] value[1] = "arr" -> <<"[">> \o json_dumps_items(value[2]) \o <<"]">>
      [] value[1] = "obj" -> <<"{">> \o json_dumps_members(value[2]) \o <<"}">>

json_dumps_items(items) ==
    IF items = <<>> THEN <<>>
    ELSE json_dumps(Head(items))
         \o (IF Len(items) > 1 THEN <<",", " ">> \o json_dumps_items(Tail(items)) ELSE <<>>)

json_dumps_members(pairs) ==
    IF pairs = <<>> THEN <<>>
    ELSE <<"\"">> \o json_escape(Head(pairs)[1]) \o <<"\"", ":", " ">>
         \o json_dumps(Head(pairs)[2])
         \o (IF Len(pairs) > 1 THEN <<",", " ">> \o json_dumps_members(Tail(pairs)) ELSE <<>>)

\* json.loads: a parse step returns the value read and the position after it
Parsed(value, next) == [ok |-> TRUE, value |-> value, next |-> next]
ParseError == [ok |-> FALSE, error |-> "JSONDecodeError"]

At(text, i) == IF i <= Len(text) THEN text[i] ELSE "EOF"

RECURSIVE skip_whitespace(_, _)
skip_whitespace(text, i) ==
    IF At(text, i) = " " THEN skip_whitespace(text, i + 1) ELSE i

RECURSIVE parse_string(_, _, _)
parse_string(text, i, acc) ==
    CASE At(text, i) = "EOF" -> ParseError
      [] At(text, i) = "\"" -> Parsed(acc, i + 1)
      [] At(text, i) = "\\" ->
             IF At(text, i + 1) \in {"\"", "\\"}
             THEN parse_string(text, i + 2, Append(acc, text[i + 1]))
             ELSE ParseError
      [] OTHER -> parse_string(text, i + 1, Append(acc, text[i]))

RECURSIVE parse_number(_, _, _)
parse_number(text, i, acc) ==
    IF At(text, i) \in DigitChars
    THEN parse_number(text, i + 1, acc * 10 + DigitValue(text[i]))
    ELSE Parsed(JNum(acc), i)

parse_literal(text, i, word) ==
    IF i + Len(word) - 1 <= Len(text) /\ SubSeq(text, i, i + Len(word) - 1) = word
    THEN Parsed(JLit(word), i + Len(word))
    ELSE ParseError

LitTrue == <<"t", "r", "u", "e">>
LitFalse == <<"f", "a", "l", "s", "e">>
LitNull == <<"n", "u", "l", "l">>

RECURSIVE parse_value(_, _), parse_items(_, _, _), parse_members(_, _, _)
parse_value(text, i) ==
    LET j == skip_whitespace(text, i)
        c == At(text, j)
    IN  CASE c = "\"" ->
                 LET s == parse_string(text, j + 1, <<>>)
                 IN  IF s.ok THEN Parsed(JStr(s.value), s.next) ELSE s
          [] c = "[" ->
                 IF At(text, skip_whitespace(text, j + 1)) = "]"
                 THEN Parsed(JArr(<<>>), skip_whitespace(text, j + 1) + 1)
                 ELSE parse_items(text, j + 1, <<>>)
          [] c = "{" ->
                 IF At(text, skip_whitespace(text, j + 1)) = "}"
                 THEN Parsed(JObj(<<>>), skip_whitespace(text, j + 1) + 1)
                 ELSE parse_members(text, j + 1, <<>>)
          [] c \in DigitChars -> parse_number(text, j, 0)
          [] c = "t" -> parse_literal(text, j, LitTrue)
          [] c = "f" -> parse_literal(text, j, LitFalse)
          [] c = "n" -> parse_literal(text, j, LitNull)
          [] OTHER -> ParseError

parse_items(text, i, acc) ==
    LET item == parse_value(text, i)
    IN  IF ~item.ok THEN item
        ELSE LET k == skip_whitespace(text, item.next)
             IN  CASE At(text, k) = "," -> parse_items(text, k + 1, Append(acc, item.value))
                   [] At(text, k) = "]" -> Parsed(JArr(Append(acc, item.value)), k + 1)
                   [] OTHER -> ParseError

parse_members(text, i, acc) ==
    LET j == skip_whitespace(text, i)
        key == IF At(text, j) = "\"" THEN parse_string(text, j + 1, <<>>) ELSE ParseError
    IN  IF ~key.ok THEN key
        ELSE LET k == skip_whitespace(text, key.next)
                 member == IF At(text, k) = ":" THEN parse_value(text, k + 1) ELSE ParseError
             IN  IF ~member.ok THEN member
                 ELSE LET m == skip_whitespace(text, member.next)
                          pairs == Append(acc, <<key.value, member.value>>)
                      IN  CASE At(text, m) = "," -> parse_members(text, m + 1, pairs)
                            [] At(text, m) = "}" -> Parsed(JObj(pairs), m + 1)
                            [] OTHER -> ParseError

\* json.loads(text): one value, nothing but whitespace after it
json_loads(text) ==
    LET parsed == parse_value(text, 1)
    IN  IF ~parsed.ok THEN Error("JSONDecodeError")
        ELSE IF skip_whitespace(text, parsed.next) <= Len(text) THEN Error("JSONDecodeError")
        ELSE Ok(parsed.value)

\* gzip: a lossless byte compression inside a container that its reader checks.
\* The container is the magic bytes and method, the compressed body, and the
\* length of the input in the trailer; the body is run-length coded.
GzipHeader == <<31, 139, 8, 0>>
ByteRange == 256
MaxRun == 255

\* where the runs of the body start: at a change of byte, and after MaxRun repeats
RunBegin(bytes, i) ==
    CHOOSE k \in 1..i :
        /\ k = 1 \/ bytes[k] # bytes[k - 1]
        /\ \A m \in (k + 1)..i : bytes[m] = bytes[m - 1]

RunStarts(bytes) ==
    SelectSeq([i \in 1..Len(bytes) |-> i],
              LAMBDA i : (i - RunBegin(bytes, i)) % MaxRun = 0)

\* the body: one (length, byte) pair per run
deflate(bytes) ==
    LET starts == RunStarts(bytes)
        runs == Len(starts)
        RunEnd(p) == IF p = runs THEN Len(bytes) ELSE starts[p + 1] - 1
    IN  [k \in 1..(2 * runs) |->
            IF k % 2 = 1
            THEN RunEnd((k + 1) \div 2) - starts[(k + 1) \div 2] + 1
            ELSE bytes[starts[k \div 2]]]

\* the lengths of runs lo..hi of a body, added up
RECURSIVE SumRuns(_, _, _)
SumRuns(body, lo, hi) ==
    IF lo > hi THEN 0
    ELSE IF lo = hi THEN body[2 * lo - 1]
    ELSE SumRuns(body, lo, (lo + hi) \div 2) + SumRuns(body, (lo + hi) \div 2 + 1, hi)

inflate(body) ==
    LET runs == Len(body) \div 2
        upto == [p \in 0..runs |-> SumRuns(body, 1, p)]
    IN  [q \in 1..upto[runs] |->
            body[2 * (CHOOSE p \in 1..runs : upto[p - 1] < q /\ q <= upto[p])]]

gzip_compress(bytes) == GzipHeader \o deflate(bytes) \o <<Len(bytes) % ByteRange>>

gzip_decompress(bytes) ==
    IF Len(bytes) < Len(GzipHeader) + 1 \/ SubSeq(bytes, 1, Len(GzipHeader)) # GzipHeader
    THEN Error("BadGzipFile")
    ELSE LET body == SubSeq(bytes, Len(GzipHeader) + 1, Len(bytes) - 1)
         IN  IF Len(body) % 2 # 0 \/ \E i \in 1..Len(body) : i % 2 = 1 /\ body[i] = 0
             THEN Error("zlib.error")
             ELSE IF Len(inflate(body)) % ByteRange # bytes[Len(bytes)]
             THEN Error("BadGzipFile")
             ELSE Ok(inflate(body))

\* base64: three bytes become four characters of the alphabet, "=" pads the end
Base64Alphabet ==
    <<
      "A", "B", "C", "D", "E", "F", "G", "H", "I", "J", "K", "L", "M",
      "N", "O", "P", "Q", "R", "S", "T", "U", "V", "W", "X", "Y", "Z",
      "a", "b", "c", "d", "e", "f", "g", "h", "i", "j", "k", "l", "m",
      "n", "o", "p", "q", "r", "s", "t", "u", "v", "w", "x", "y", "z",
      "0", "1", "2", "3", "4", "5", "6", "7", "8", "9", "+", "/"
    >>

Base64Index == [c \in {Base64Alphabet[i] : i \in 1..64} |->
                   (CHOOSE i \in 1..64 : Base64Alphabet[i] = c) - 1]

Sextet(n) == AsciiCode[Base64Alphabet[n + 1]]
Pad == AsciiCode["="]

\* base64.b64encode(bytes): bytes of ASCII characters
b64encode(bytes) ==
    LET n == Len(bytes)
        Byte(i) == IF i <= n THEN bytes[i] ELSE 0
        Char(k) ==
            LET first == 3 * ((k - 1) \div 4) + 1
                b1 == Byte(first)
                b2 == Byte(first + 1)
                b3 == Byte(first + 2)
            IN  CASE (k - 1) % 4 = 0 -> Sextet(b1 \div 4)
                  [] (k - 1) % 4 = 1 -> Sextet((b1 % 4) * 16 + b2 \div 16)
                  [] (k - 1) % 4 = 2 ->
                         IF first + 1 > n THEN Pad ELSE Sextet((b2 % 16) * 4 + b3 \div 64)
                  [] (k - 1) % 4 = 3 ->
                         IF first + 2 > n THEN Pad ELSE Sextet(b3 % 64)
    IN  [k \in 1..(4 * ((n + 2) \div 3)) |-> Char(k)]

IsBase64Byte(b) ==
    /\ b >= 32 /\ b <= 126
    /\ AsciiChars[b - 31] \in DOMAIN Base64Index

Base64Value(b) == IF b = Pad THEN 0 ELSE Base64Index[AsciiChars[b - 31]]

\* base64.b64decode(bytes): characters outside the alphabet are discarded, then the
\* padding must be right
b64decode(bytes) ==
    LET kept == SelectSeq(bytes, LAMBDA b : IsBase64Byte(b) \/ b = Pad)
        n == Len(kept)
        pads == IF n > 0 /\ kept[n] = Pad
                THEN (IF n > 1 /\ kept[n - 1] = Pad THEN 2 ELSE 1)
                ELSE 0
        Byte(i) ==
            LET first == 4 * ((i - 1) \div 3) + 1
                v1 == Base64Value(kept[first])
                v2 == Base64Value(kept[first + 1])
                v3 == Base64Value(kept[first + 2])
                v4 == Base64Value(kept[first + 3])
            IN  CASE (i - 1) % 3 = 0 -> v1 * 4 + v2 \div 16
                  [] (i - 1) % 3 = 1 -> (v2 % 16) * 16 + v3 \div 4
                  [] (i - 1) % 3 = 2 -> (v3 % 4) * 64 + v4
    IN  IF n % 4 # 0 \/ \E i \in 1..(n - pads) : kept[i] = Pad
        THEN Error("binascii.Error")
        ELSE Ok([i \in 1..(3 * (n \div 4) - pads) |-> Byte(i)])

\* what a codec call returns: the payload as the call leaves it and the exception it
\* raised ("none": it returned the payload)
CodecReturn(payload, error) == [data |-> payload, error |-> error]

\* compress_program(data, program_name)
compress_program(payload, program_name) ==
    LET program == payload.contract_class[program_name]
        dumped == json_dumps(program)
        zipped == gzip_compress(ascii_encode(dumped))
        encoded == b64encode(zipped)
    IN  CodecReturn(
            [payload EXCEPT !.contract_class[program_name] = JStr(ascii_decode(encoded).value)],
            "none")


\* decompress_program that stores the decoded JSON text without parsing it
decompress_program_keeps_text(payload, program_name) ==
    LET compressed_program == payload.contract_class[program_name]
    IN  IF compressed_program[1] # "str" THEN CodecReturn(payload, "AttributeError")
        ELSE LET decoded == b64decode(ascii_encode(compressed_program[2]))
             IN  IF ~decoded.ok THEN CodecReturn(payload, decoded.error)
                 ELSE LET unzipped == gzip_decompress(decoded.value)
                      IN  IF ~unzipped.ok THEN CodecReturn(payload, unzipped.error)
                          ELSE LET text == ascii_decode(unzipped.value)
                               IN  IF ~text.ok THEN CodecReturn(payload, text.error)
                                   ELSE CodecReturn(
                                            [payload EXCEPT
                                                !.contract_class[program_name] =
                                                    JStr(text.value)],
                                            "none")

\* decompress_program that keeps the decoded text in the entry while it parses it
decompress_program_writes_early(payload, program_name) ==
    LET compressed_program == payload.contract_class[program_name]
    IN  IF compressed_program[1] # "str" THEN CodecReturn(payload, "AttributeError")
        ELSE LET decoded == b64decode(ascii_encode(compressed_program[2]))
             IN  IF ~decoded.ok THEN CodecReturn(payload, decoded.error)
                 ELSE LET unzipped == gzip_decompress(decoded.value)
                      IN  IF ~unzipped.ok THEN CodecReturn(payload, unzipped.error)
                          ELSE LET text == ascii_decode(unzipped.value)
                               IN  IF ~text.ok THEN CodecReturn(payload, text.error)
                                   ELSE LET program == json_loads(text.value)
                                        IN  IF ~program.ok
                                            THEN CodecReturn(
                                                     [payload EXCEPT
                                                         !.contract_class[program_name] =
                                                             JStr(text.value)],
                                                     program.error)
                                            ELSE CodecReturn(
                                                     [payload EXCEPT
                                                         !.contract_class[program_name] =
                                                             program.value],
                                                     "none")

\* decompress_program(data, program_name)
decompress_program(payload, program_name) ==
    LET compressed_program == payload.contract_class[program_name]
    IN  IF compressed_program[1] # "str" THEN CodecReturn(payload, "AttributeError")
        ELSE LET decoded == b64decode(ascii_encode(compressed_program[2]))
             IN  IF ~decoded.ok THEN CodecReturn(payload, decoded.error)
                 ELSE LET unzipped == gzip_decompress(decoded.value)
                      IN  IF ~unzipped.ok THEN CodecReturn(payload, unzipped.error)
                          ELSE LET text == ascii_decode(unzipped.value)
                               IN  IF ~text.ok THEN CodecReturn(payload, text.error)
                                   ELSE LET program == json_loads(text.value)
                                        IN  IF ~program.ok
                                            THEN CodecReturn(payload, program.error)
                                            ELSE CodecReturn(
                                                     [payload EXCEPT
                                                         !.contract_class[program_name] =
                                                             program.value],
                                                     "none")

(***************************************************************************)
(* Properties of calculate_hash on one transaction.                        *)
(***************************************************************************)
Hashed == result.kind = "hash"

\* C1: for every version-3 variant, the first element of the preimage is the prefix
\* constant of the transaction's own type (DECLARE, INVOKE, DEPLOY_ACCOUNT).
C1_PrefixAgreesWithType ==
    (tx.cls \in V3Classes /\ Hashed) => result.preimage[1] = PrefixOfType(tx.type)

\* C2: DeployAccount and DeployAccountV3 make exactly one compute_address call, on
\* (deployer 0, the transaction's salt, class_hash, constructor_calldata), and the
\* address in the preimage is what that call returns.
C2_AddressIsDerived ==
    (tx.cls \in DeployAccountClasses /\ result # NoResult) =>
        /\ address_calls = <<AddressCall(tx.contract_address_salt, tx.class_hash,
                                         tx.constructor_calldata, Felt(0))>>
        /\ Hashed =>
              result.preimage[3] =
                  compute_address(address_calls[1].salt, address_calls[1].class_hash,
                                  address_calls[1].constructor_calldata,
                                  address_calls[1].deployer_address)

C2_Witness ==
    /\ tx.cls = "DeployAccountV3" /\ Hashed
    /\ tx.constructor_calldata # <<>>
    /\ Len(address_calls) = 1

\* C3: a transaction whose (class, version) pair is no supported variant ends in
\* UnsupportedVariant, and a hash is returned only for a supported pair.
C3_UnsupportedVariantRaises ==
    result # NoResult =>
        /\ tx.version \notin SupportedVersions(tx.cls) => result = Raise("UnsupportedVariant")
        /\ Hashed => tx.version \in SupportedVersions(tx.cls)

C3_Witness ==
    tx.cls = "InvokeV3" /\ tx.version = 1 /\ result = Raise("UnsupportedVariant")

\* C5: a calculate_hash call leaves the transaction as it was, and every call with a
\* chain_id returns what the first call with that chain_id returned.
C5_Immutable ==
    [][tx' = tx /\ result' = first_result'[chain_id']]_vars

C5_Witness ==
    /\ n_calls = 2 /\ Hashed
    /\ \E c \in StarknetChainId : first_result[c] = NoResult

\* the V3 common part after the prefix, read off the transaction's fields
C6_CommonPart(t, address, chain) ==
    <<Felt(t.version), address,
      FieldHash(<<t.tip, ResourceBoundsFor(t.resource_bounds, "l1_gas"),
                  ResourceBoundsFor(t.resource_bounds, "l2_gas")>>),
      FieldHash(t.paymaster_data), chain, t.nonce,
      PackDAModes(t.nonce_data_availability_mode, t.fee_data_availability_mode)>>

\* C6: after the prefix, a version-3 preimage holds version, address, the fee fields,
\* paymaster_data, chain_id, nonce and the packed (nonce mode, fee mode), then
\* account_deployment_data, class, compiled_class_hash (DeclareV3);
\* account_deployment_data, calldata (InvokeV3); constructor_calldata, class_hash,
\* contract_address_salt (DeployAccountV3).
C6_FieldsInPlace ==
    (tx.cls \in V3Classes /\ Hashed) =>
        Tail(result.preimage) =
            CASE tx.cls = "DeclareV3" ->
                     C6_CommonPart(tx, tx.sender_address, chain_id)
                     \o <<FieldHash(tx.account_deployment_data),
                          compute_class_hash(tx.contract_class), tx.compiled_class_hash>>
              [] tx.cls = "InvokeV3" ->
                     C6_CommonPart(tx, tx.sender_address, chain_id)
                     \o <<FieldHash(tx.account_deployment_data), FieldHash(tx.calldata)>>
              [] tx.cls = "DeployAccountV3" ->
                     C6_CommonPart(tx,
                                   compute_address(tx.contract_address_salt, tx.class_hash,
                                                   tx.constructor_calldata, Felt(0)),
                                   chain_id)
                     \o <<FieldHash(tx.constructor_calldata), tx.class_hash,
                          tx.contract_address_salt>>

C6_Witness ==
    /\ tx.cls = "InvokeV3" /\ Hashed
    /\ tx.nonce_data_availability_mode # tx.fee_data_availability_mode
    /\ tx.account_deployment_data # tx.calldata

\* the transaction with another signature attached, every other field as it is
C11_Signed(t, signature) == [t EXCEPT !.signature = signature]

\* C11: the signature never influences what calculate_hash gives: whatever a call
\* returned or raised for a transaction and a chain, the call on the transaction
\* that differs from it in the signature only returns or raises the same, for
\* every class, and makes the same compute_address calls.
C11_SignatureNotHashed ==
    result # NoResult =>
        \A signature \in Signatures :
            LET other == calculate_hash(C11_Signed(tx, signature), chain_id)
            IN  /\ other.result = result
                /\ other.address_calls = address_calls
                /\ other.self = C11_Signed(tx, signature)

C11_Witness ==
    /\ tx.cls = "DeployAccount" /\ Hashed
    /\ tx.signature = <<Felt(1), Felt(2)>>
    /\ tx.constructor_calldata # <<>>
    /\ calculate_hash(C11_Signed(tx, <<>>), chain_id).result = result

(***************************************************************************)
(* Runs on two transaction objects of different version-3 classes:         *)
(* calculate_hash is called on the first, then on the second.  The fields  *)
(* every class shares are held equal; the others vary.                     *)
(***************************************************************************)
PairTransactions ==
    {t \in DeclareV3s \cup InvokeV3s \cup DeployAccountV3s :
        /\ t.version = 3 /\ t.signature = <<>>
        /\ t.nonce = Felt(0) /\ t.tip = Felt(0) /\ t.paymaster_data = <<>>
        /\ t.resource_bounds.l1_gas.max_amount = 1
        /\ t.nonce_data_availability_mode = "L1"
        /\ t.fee_data_availability_mode = "L1"}

InitPair ==
    /\ tx \in PairTransactions
    /\ tx2 \in PairTransactions
    /\ tx.cls # tx2.cls
    /\ chain_id = "none"
    /\ result = NoResult
    /\ result2 = NoResult
    /\ address_calls = <<>>
    /\ first_result = [c \in StarknetChainId |-> NoResult]
    /\ n_calls = 0
    /\ data = <<>> /\ codec_error = "none" /\ codec_calls = <<>>
    /\ typed_data = <<>> /\ td_output = <<>>
    /\ hex_input = <<>> /\ hex_output = <<>>

\* tx.calculate_hash(chain)
PairCallFirst ==
    \E c \in StarknetChainId : result = NoResult /\ Call(calculate_hash(tx, c), c)

\* tx2.calculate_hash(chain)
PairCallSecond ==
    \E c \in StarknetChainId :
        /\ result # NoResult
        /\ result2 = NoResult
        /\ tx2' = calculate_hash(tx2, c).self
        /\ result2' = calculate_hash(tx2, c).result
        /\ UNCHANGED <<tx_vars, codec_vars, typed_vars, hex_vars>>

NextPair ==
    \/ PairCallFirst
    \/ PairCallSecond

SpecPair == InitPair /\ [][NextPair]_vars

\* C10: two version-3 transactions of different classes never yield the same
\* preimage.
C10_KindsNeverCollide ==
    (/\ Hashed /\ result2.kind = "hash"
     /\ tx.cls \in V3Classes /\ tx2.cls \in V3Classes /\ tx.cls # tx2.cls)
    => result.preimage # result2.preimage

(***************************************************************************)
(* Runs of the codec on one payload dict (Declare.post_dump calls          *)
(* compress_program, Declare.pre_load calls decompress_program).           *)
(***************************************************************************)
Text0x1 == <<"0", "x", "1">>
TextQuoted == <<"a", "\"", "\\", " ">>

Atoms ==
    {JNum(0), JNum(7), JNum(120), JStr(<<>>), JStr(Text0x1), JStr(TextQuoted),
     JLit(LitTrue), JLit(LitFalse), JLit(LitNull)}

Arrays ==
    {JArr(<<>>)} \cup {JArr(<<a>>) : a \in Atoms}
    \cup {JArr(<<a, b>>) : a \in {JNum(7), JStr(Text0x1)}, b \in {JNum(7), JLit(LitNull)}}
    \cup {JArr(<<JArr(<<JNum(0)>>), JObj(<<>>)>>)}

Objects ==
    {JObj(<<>>)}
    \cup {JObj(<<<<<<"d", "a", "t", "a">>, v>>>>) : v \in Atoms \cup {JArr(<<JNum(7)>>)}}
    \cup {JObj(<<<<<<"p", "r", "i", "m", "e">>, JStr(Text0x1)>>,
                 <<<<"d", "a", "t", "a">>, JArr(<<JStr(Text0x1), JNum(120)>>)>>,
                 <<<<"m", "a", "i", "n">>, JObj(<<<<<<"p", "c">>, JNum(0)>>>>)>>>>)}

\* strings that are no compressed program: wrong padding, no gzip container, a
\* container whose content is no JSON text
NotCompressed ==
    {JStr(<<"a", "b", "c">>), JStr(<<"Y", "W", "J", "j">>),
     JStr(ascii_decode(b64encode(gzip_compress(ascii_encode(<<"x", ":">>)))).value)}

Programs == Atoms \cup Arrays \cup Objects \cup NotCompressed

Payload(program) ==
    [contract_class |-> [program |-> program, abi |-> JArr(<<>>)],
     version |-> JStr(Text0x1), type |-> JStr(<<"D", "E", "C", "L", "A", "R", "E">>)]

IdleTransactions ==
    /\ tx = NoTransaction /\ tx2 = NoTransaction
    /\ chain_id = "none" /\ result = NoResult /\ result2 = NoResult
    /\ address_calls = <<>> /\ n_calls = 0
    /\ first_result = [c \in StarknetChainId |-> NoResult]

InitCodec ==
    /\ data \in {Payload(p) : p \in Programs}
    /\ codec_error = "none"
    /\ codec_calls = <<>>
    /\ IdleTransactions
    /\ typed_data = <<>> /\ td_output = <<>>
    /\ hex_input = <<>> /\ hex_output = <<>>

\* one codec call whose outcome is out
CodecCall(function, out) ==
    /\ Len(codec_calls) < MaxCodecCalls
    /\ data' = out.data
    /\ codec_error' = out.error
    /\ codec_calls' = Append(codec_calls,
                             [function |-> function, before |-> data, after |-> out.data,
                              error |-> out.error])
    /\ UNCHANGED <<tx_vars, pair_vars, typed_vars, hex_vars>>


\* the payload holds a program that compress_program produced: the last call that
\* returned was compress_program (a dump compresses its payload once)
HoldsCompressed ==
    \E i \in 1..Len(codec_calls) :
        /\ codec_calls[i].function = "compress_program"
        /\ \A j \in (i + 1)..Len(codec_calls) : codec_calls[j].error # "none"

\* Declare.post_dump
CompressProgram ==
    /\ ~HoldsCompressed
    /\ CodecCall("compress_program", compress_program(data, "program"))

\* Declare.pre_load
DecompressProgram == CodecCall("decompress_program", decompress_program(data, "program"))

NextCodec ==
    \/ CompressProgram
    \/ DecompressProgram

SpecCodec == InitCodec /\ [][NextCodec]_vars

\* C4: compress_program stores base64(gzip(JSON text of the program)), and a
\* decompress_program call right after it succeeds and leaves the program the payload
\* held before the compression.
C4_RoundTrip ==
    \A i \in 1..Len(codec_calls) :
        codec_calls[i].function = "compress_program" =>
            /\ codec_calls[i].error = "none"
            /\ codec_calls[i].after.contract_class.program[1] = "str"
            /\ b64decode(ascii_encode(codec_calls[i].after.contract_class.program[2])) =
                   Ok(gzip_compress(ascii_encode(
                          json_dumps(codec_calls[i].before.contract_class.program))))
            /\ (i < Len(codec_calls) /\ codec_calls[i + 1].function = "decompress_program") =>
                   /\ codec_calls[i + 1].error = "none"
                   /\ codec_calls[i + 1].after.contract_class.program =
                          codec_calls[i].before.contract_class.program

C4_Witness ==
    /\ Len(codec_calls) = 2
    /\ codec_calls[1].function = "compress_program"
    /\ codec_calls[2].function = "decompress_program"
    /\ codec_calls[1].before.contract_class.program[1] = "obj"
    /\ Len(codec_calls[1].before.contract_class.program[2]) = 3
    /\ data = codec_calls[1].before

\* the entries of a dict other than one
C12_Others(dict, key) == [k \in (DOMAIN dict) \ {key} |-> dict[k]]

\* C12: a compress_program or decompress_program call leaves in the payload every
\* entry but contract_class as it was, and in contract_class every entry but the
\* program; the payload the call returns is the payload the dict then holds; a call
\* that raised (a decode step of decompress_program failed) left the whole payload
\* as it was.
C12_OnlyProgramWritten ==
    /\ \A i \in 1..Len(codec_calls) :
          LET call == codec_calls[i]
          IN  /\ DOMAIN call.after = DOMAIN call.before
              /\ C12_Others(call.after, "contract_class") =
                     C12_Others(call.before, "contract_class")
              /\ DOMAIN call.after.contract_class = DOMAIN call.before.contract_class
              /\ C12_Others(call.after.contract_class, "program") =
                     C12_Others(call.before.contract_class, "program")
              /\ call.error # "none" => call.after = call.before
              /\ i < Len(codec_calls) => codec_calls[i + 1].before = call.after
    /\ codec_calls # <<>> =>
          /\ data = codec_calls[Len(codec_calls)].after
          /\ codec_error = codec_calls[Len(codec_calls)].error

C12_Witness ==
    /\ Len(codec_calls) = 2
    /\ codec_calls[1].function = "decompress_program"
    /\ codec_calls[1].error = json_loads(<<"x", ":">>).error
    /\ codec_calls[1].after = codec_calls[1].before
    /\ codec_calls[2].function = "compress_program"
    /\ codec_calls[2].error = "none"
    /\ codec_calls[2].after.contract_class.program # codec_calls[2].before.contract_class.program
    /\ codec_calls[2].after.contract_class.abi = JArr(<<>>)
    /\ codec_calls[2].after.version = JStr(Text0x1)

(***************************************************************************)
(* get_hex (utils/typed_data.py), the spec's normalize_scalar.  A Python   *)
(* int is <<"int", n>>, a str is <<"str", chars>>.                         *)
(***************************************************************************)
PyInt(n) == <<"int", n>>
PyStr(chars) == <<"str", chars>>

HexDigits == <<"0", "1", "2", "3", "4", "5", "6", "7", "8", "9", "a", "b", "c", "d", "e", "f">>
UpperHexDigits == <<"A", "B", "C", "D", "E", "F">>
HexDigitChars ==
    {HexDigits[i] : i \in 1..16} \cup {UpperHexDigits[i] : i \in 1..6}

HexPrefix == <<"0", "x">>
MaxShortStringLength == 31

\* the hexadecimal digits of an int n >= 0, most significant first
RECURSIVE hex_digits(_)
hex_digits(n) ==
    IF n < 16 THEN <<HexDigits[n + 1]>>
    ELSE hex_digits(n \div 16) \o <<HexDigits[(n % 16) + 1]>>

\* hex(n): the hexadecimal literal of an int
hex(n) == HexPrefix \o hex_digits(n)

\* str.isnumeric(): decimal numeric text
IsDecimalText(text) ==
    text # <<>> /\ \A i \in 1..Len(text) : text[i] \in DigitChars

\* int(text)
RECURSIVE int_of_text(_)
int_of_text(text) ==
    IF text = <<>> THEN 0
    ELSE int_of_text(SubSeq(text, 1, Len(text) - 1)) * 10 + DigitValue(text[Len(text)])

HasHexPrefix(text) == Len(text) >= 2 /\ SubSeq(text, 1, 2) = HexPrefix

\* well-formed hex text: the prefix and at least one hexadecimal digit
IsHexText(text) ==
    /\ Len(text) > 2
    /\ \A i \in 3..Len(text) : text[i] \in HexDigitChars

\* hex(encode_shortstring(text)): the bytes of the text read as one big-endian
\* integer, written byte by byte since the integer has up to 248 bits
short_string_hex(text) ==
    LET bytes == ascii_encode(text)
        digits == [k \in 1..(2 * Len(bytes)) |->
                      IF k % 2 = 1 THEN HexDigits[(bytes[(k + 1) \div 2] \div 16) + 1]
                      ELSE HexDigits[(bytes[k \div 2] % 16) + 1]]
        significant == {k \in 1..Len(digits) : digits[k] # "0"}
    IN  IF significant = {} THEN hex(0)
        ELSE HexPrefix
             \o SubSeq(digits, CHOOSE k \in significant : \A m \in significant : k <= m,
                       Len(digits))

\* get_hex with decimal text taken for a short string
get_hex_without_decimal(value) ==
    IF value[1] = "int" THEN Ok(hex(value[2]))
    ELSE IF HasHexPrefix(value[2])
    THEN (IF IsHexText(value[2]) THEN Ok(value[2]) ELSE Error("EncodingError"))
    ELSE IF Len(value[2]) > MaxShortStringLength THEN Error("EncodingError")
    ELSE Ok(short_string_hex(value[2]))

\* get_hex(value)
get_hex(value) ==
    IF value[1] = "int" THEN Ok(hex(value[2]))
    ELSE IF IsDecimalText(value[2]) THEN Ok(hex(int_of_text(value[2])))
    ELSE IF HasHexPrefix(value[2])
    THEN (IF IsHexText(value[2]) THEN Ok(value[2]) ELSE Error("EncodingError"))
    ELSE IF Len(value[2]) > MaxShortStringLength THEN Error("EncodingError")
    ELSE Ok(short_string_hex(value[2]))

\* test_get_hex: the (value, result) pairs of the test
test_get_hex_cases ==
    {<<PyInt(123), <<"0", "x", "7", "b">>>>,
     <<PyStr(<<"1", "2", "3">>), <<"0", "x", "7", "b">>>>,
     <<PyStr(<<"0", "x", "7", "b">>), <<"0", "x", "7", "b">>>>,
     <<PyStr(<<"s", "h", "o", "r", "t", "_", "s", "t", "r", "i", "n", "g">>),
       <<"0", "x", "7", "3", "6", "8", "6", "f", "7", "2", "7", "4", "5", "f",
         "7", "3", "7", "4", "7", "2", "6", "9", "6", "e", "6", "7">>>>}

(***************************************************************************)
(* Runs of get_hex: one call on one value.                                 *)
(***************************************************************************)
Ints == 0..MaxHexInt \cup {123}

DecimalTexts ==
    {int_to_text(n) : n \in Ints} \cup {<<"0">> \o int_to_text(n) : n \in 0..3}

HexTexts ==
    {hex(n) : n \in Ints}
    \cup {<<"0", "x", "7", "B">>, <<"0", "x", "0", "7", "b">>, <<"0", "x", "0", "0">>,
          <<"0", "x", "0", "A">>, <<"0", "x", "F", "f">>, <<"0", "x">>,
          <<"0", "x", "g", "1">>, <<"0", "x", "1", " ">>}

OtherTexts ==
    {<<>>, <<"a">>, <<"7", "b">>, <<"x", "0">>, <<"-", "1">>, <<" ", "1">>, <<"1", "x">>,
     <<"s", "h", "o", "r", "t", "_", "s", "t", "r", "i", "n", "g">>,
     [i \in 1..MaxShortStringLength |-> "z"],
     [i \in 1..(MaxShortStringLength + 1) |-> "z"]}

HexInputs ==
    {PyInt(n) : n \in Ints} \cup {PyStr(t) : t \in DecimalTexts \cup HexTexts \cup OtherTexts}

NoOutput == [ok |-> FALSE, error |-> "not called"]

InitHex ==
    /\ hex_input \in HexInputs
    /\ hex_output = NoOutput
    /\ IdleTransactions
    /\ data = <<>> /\ codec_error = "none" /\ codec_calls = <<>>
    /\ typed_data = <<>> /\ td_output = <<>>

GetHex ==
    /\ hex_output = NoOutput
    /\ hex_output' = get_hex(hex_input)
    /\ UNCHANGED <<hex_input, tx_vars, pair_vars, codec_vars, typed_vars>>

NextHex == GetHex

SpecHex == InitHex /\ [][NextHex]_vars

\* the value of one hexadecimal digit, either case
C9_DigitValue(c) ==
    IF c \in DigitChars THEN DigitValue(c)
    ELSE CHOOSE v \in 10..15 : HexDigits[v + 1] = c \/ UpperHexDigits[v - 9] = c

\* the number a hexadecimal literal of a few digits denotes
RECURSIVE C9_HexValue(_)
C9_HexValue(digits) ==
    IF digits = <<>> THEN 0
    ELSE C9_HexValue(SubSeq(digits, 1, Len(digits) - 1)) * 16
         + C9_DigitValue(digits[Len(digits)])

\* a hexadecimal literal in the form hex() writes: prefix, lowercase digits, no
\* leading zero
C9_IsCanonical(literal) ==
    /\ HasHexPrefix(literal) /\ Len(literal) > 2
    /\ \A i \in 3..Len(literal) : literal[i] \in {HexDigits[k] : k \in 1..16}
    /\ literal[3] = "0" => Len(literal) = 3

\* the number a value represents, -1 when it is no number
C9_Number(value) ==
    CASE value[1] = "int" -> value[2]
      [] value[1] = "str" /\ IsDecimalText(value[2]) -> int_of_text(value[2])
      [] value[1] = "str" /\ HasHexPrefix(value[2]) /\ IsHexText(value[2]) ->
             C9_HexValue(SubSeq(value[2], 3, Len(value[2])))
      [] OTHER -> -1

\* C9 as claimed: get_hex maps every representation of the same number (the int,
\* its decimal text, its hex-prefixed text) to one value.
C9_OneValuePerNumber ==
    (hex_output # NoOutput /\ C9_Number(hex_input) >= 0) =>
        \A other \in HexInputs :
            C9_Number(other) = C9_Number(hex_input) => get_hex(other) = hex_output

\* C9 as amended: get_hex(n) and get_hex(decimal text of n) are the canonical
\* hexadecimal literal of n; a hex-prefixed text is returned unchanged, whatever its
\* case or leading zeros; any other text of at most 31 bytes becomes the canonical
\* literal of the big-endian integer of its bytes; the test's pairs hold.
C9_Normalized ==
    hex_output # NoOutput =>
        /\ (hex_input[1] = "int" \/ IsDecimalText(hex_input[2])) =>
               /\ hex_output.ok
               /\ C9_IsCanonical(hex_output.value)
               /\ C9_HexValue(SubSeq(hex_output.value, 3, Len(hex_output.value))) =
                      C9_Number(hex_input)
        /\ (hex_input[1] = "str" /\ HasHexPrefix(hex_input[2]) /\ IsHexText(hex_input[2])) =>
               hex_output = Ok(hex_input[2])
        /\ (/\ hex_input[1] = "str" /\ ~IsDecimalText(hex_input[2])
            /\ ~HasHexPrefix(hex_input[2])
            /\ Len(hex_input[2]) <= MaxShortStringLength) =>
               /\ hex_output.ok
               /\ C9_IsCanonical(hex_output.value)
               /\ LET text == hex_input[2]
                      digits == SubSeq(hex_output.value, 3, Len(hex_output.value))
                      pad == 2 * Len(text) - Len(digits)
                      Digit(k) == IF k <= pad THEN 0 ELSE C9_DigitValue(digits[k - pad])
                  IN  /\ pad >= 0 \/ text = <<>>
                      /\ \A i \in 1..Len(text) :
                             AsciiCode[text[i]] = 16 * Digit(2 * i - 1) + Digit(2 * i)
        /\ \A case \in test_get_hex_cases :
               hex_input = case[1] => hex_output = Ok(case[2])

C9_Witness ==
    /\ hex_input = PyStr(<<"0", "x", "0", "7", "b">>)
    /\ hex_output = Ok(<<"0", "x", "0", "7", "b">>)
    /\ get_hex(PyInt(123)) = get_hex(PyStr(<<"1", "2", "3">>))
    /\ get_hex(PyInt(123)) = get_hex(PyStr(<<"0", "x", "7", "b">>))

(***************************************************************************)
(* TypedData (utils/typed_data.py): TypeRegistry, TypeEncoder, TypeHasher. *)
(* types is the mapping in its iteration order: a sequence of              *)
(* declarations [name, fields]; a field is [name, type], its type a        *)
(* [base, pointer] pair ("Post*" is base "Post" with pointer TRUE).        *)
(***************************************************************************)
Field(name, base, pointer) == [name |-> name, type |-> [base |-> base, pointer |-> pointer]]
Declaration(name, fields) == [name |-> name, fields |-> fields]

Revision == {"V0", "V1"}

\* the reserved names, in the order the check goes through them
ReservedTypeNames == <<"felt", "felt*", "string", "selector">>
PrimitiveTypes == {"felt", "bool", "string", "selector", "shortstring"}

DeclaredNames(types) == {types[i].name : i \in 1..Len(types)}
FieldsOf(types, name) == types[CHOOSE i \in 1..Len(types) : types[i].name = name].fields
Elements(seq) == {seq[i] : i \in 1..Len(seq)}

\* TypedData.__post_init__ that checks the names under revision V1 only
TypedData_init_v1_only(types, primary_type, revision) ==
    LET reserved == {k \in 1..Len(ReservedTypeNames) :
                        ReservedTypeNames[k] \in DeclaredNames(types)}
        unknown == {f.type.base : f \in UNION {Elements(types[i].fields) : i \in 1..Len(types)}}
                   \ (PrimitiveTypes \cup DeclaredNames(types))
    IN  IF revision = "V1" /\ reserved # {}
        THEN [state |-> "rejected", types |-> types, primary_type |-> primary_type,
              revision |-> revision,
              error |-> <<"Reserved type name",
                          ReservedTypeNames[CHOOSE k \in reserved : \A m \in reserved : k <= m]>>]
        ELSE IF unknown # {} \/ primary_type \notin DeclaredNames(types)
        THEN [state |-> "rejected", types |-> types, primary_type |-> primary_type,
              revision |-> revision, error |-> <<"Unknown type">>]
        ELSE [state |-> "constructed", types |-> types, primary_type |-> primary_type,
              revision |-> revision, error |-> <<>>]

\* TypedData(types, primary_type, domain, message): the validation of
\* __post_init__, then the object
TypedData_init(types, primary_type, revision) ==
    LET reserved == {k \in 1..Len(ReservedTypeNames) :
                        ReservedTypeNames[k] \in DeclaredNames(types)}
        unknown == {f.type.base : f \in UNION {Elements(types[i].fields) : i \in 1..Len(types)}}
                   \ (PrimitiveTypes \cup DeclaredNames(types))
    IN  IF reserved # {}
        THEN [state |-> "rejected", types |-> types, primary_type |-> primary_type,
              revision |-> revision,
              error |-> <<"Reserved type name",
                          ReservedTypeNames[CHOOSE k \in reserved : \A m \in reserved : k <= m]>>]
        ELSE IF unknown # {} \/ primary_type \notin DeclaredNames(types)
        THEN [state |-> "rejected", types |-> types, primary_type |-> primary_type,
              revision |-> revision, error |-> <<"Unknown type">>]
        ELSE [state |-> "constructed", types |-> types, primary_type |-> primary_type,
              revision |-> revision, error |-> <<>>]

\* the dependency closure of a type that lists the dependencies in the order of the
\* types mapping
dependency_closure_in_mapping_order(types, root) ==
    LET Reach[n \in 0..Len(types)] ==
            IF n = 0 THEN {root}
            ELSE Reach[n - 1]
                 \cup ({f.type.base :
                           f \in UNION {Elements(FieldsOf(types, t)) : t \in Reach[n - 1]}}
                       \cap DeclaredNames(types))
    IN  <<root>>
        \o SelectSeq([i \in 1..Len(types) |-> types[i].name],
                     LAMBDA t : t # root /\ t \in Reach[Len(types)])

\* the dependency closure of a type in visitation order: depth-first over the field
\* declarations, each type recorded the first time it is visited, the root first
RECURSIVE visit(_, _, _), visit_fields(_, _, _, _)
visit(types, name, order) ==
    IF name \notin DeclaredNames(types) \/ name \in Elements(order) THEN order
    ELSE visit_fields(types, FieldsOf(types, name), 1, Append(order, name))

visit_fields(types, fields, i, order) ==
    IF i > Len(fields) THEN order
    ELSE visit_fields(types, fields, i + 1, visit(types, fields[i].type.base, order))

dependency_closure(types, root) == visit(types, root, <<>>)

\* how a field's type is written: elementType* for an array
TypeText(type) == IF type.pointer THEN type.base \o "*" ELSE type.base

Quoted(revision, text) == IF revision = "V1" THEN "\"" \o text \o "\"" ELSE text

RECURSIVE encode_fields_text(_, _, _)
encode_fields_text(fields, i, revision) ==
    IF i > Len(fields) THEN ""
    ELSE (IF i > 1 THEN "," ELSE "")
         \o Quoted(revision, fields[i].name) \o ":" \o Quoted(revision, TypeText(fields[i].type))
         \o encode_fields_text(fields, i + 1, revision)

\* the block of one type: Name(field1:type1,...), every identifier quoted under V1
encode_block(types, name, revision) ==
    Quoted(revision, name) \o "(" \o encode_fields_text(FieldsOf(types, name), 1, revision) \o ")"

RECURSIVE encode_blocks(_, _, _, _)
encode_blocks(types, order, i, revision) ==
    IF i > Len(order) THEN ""
    ELSE encode_block(types, order[i], revision) \o encode_blocks(types, order, i + 1, revision)

\* TypedData._encode_type(type_name)
encode_type(types, root, revision) ==
    encode_blocks(types, dependency_closure(types, root), 1, revision)

\* the string-to-field primitive
StringToField(text) == <<"selector", text>>

\* TypedData.type_hash(type_name)
type_hash(types, name, revision) == StringToField(encode_type(types, name, revision))

(***************************************************************************)
(* The typed data of the tests, and the runs over them.                    *)
(***************************************************************************)
domain_type_v0 == Declaration("StarkNetDomain", <<Field("name", "felt", FALSE), Field("version", "felt", FALSE), Field("chainId", "felt", FALSE)>>)
domain_type_v1 == Declaration("StarknetDomain", <<Field("name", "shortstring", FALSE), Field("version", "shortstring", FALSE), Field("chainId", "shortstring", FALSE), Field("revision", "shortstring", FALSE)>>)
DomainType(revision) == IF revision = "V0" THEN domain_type_v0 ELSE domain_type_v1

Person == Declaration("Person", <<Field("name", "felt", FALSE), Field("wallet", "felt", FALSE)>>)
Post == Declaration("Post", <<Field("title", "felt", FALSE), Field("content", "felt", FALSE)>>)
String == Declaration("String", <<Field("len", "felt", FALSE), Field("data", "felt", TRUE)>>)
MailOf(fields) == Declaration("Mail", <<Field("from", "Person", FALSE), Field("to", "Person", FALSE)>> \o fields)

\* the declarations of the example files, without the domain type
CasesTypes ==
    [TD |-> <<Person, MailOf(<<Field("contents", "felt", FALSE)>>)>>,
     TD_FELT_ARR |-> <<Person, MailOf(<<Field("felts_len", "felt", FALSE), Field("felts", "felt", TRUE)>>)>>,
     TD_STRING |-> <<String, Person, MailOf(<<Field("contents", "String", FALSE)>>)>>,
     TD_STRUCT_ARR |-> <<Post, Person, MailOf(<<Field("posts_len", "felt", FALSE), Field("posts", "Post", TRUE)>>)>>]

\* test_encode_type: example, revision, type_name, encoded_type
test_encode_type_cases ==
    {<<"TD", "V0", "Mail", "Mail(from:Person,to:Person,contents:felt)Person(name:felt,wallet:felt)">>,
     <<"TD_FELT_ARR", "V0", "Mail", "Mail(from:Person,to:Person,felts_len:felt,felts:felt*)Person(name:felt,wallet:felt)">>,
     <<"TD_STRING", "V0", "Mail", "Mail(from:Person,to:Person,contents:String)Person(name:felt,wallet:felt)String(len:felt,data:felt*)">>,
     <<"TD_STRUCT_ARR", "V0", "Mail", "Mail(from:Person,to:Person,posts_len:felt,posts:Post*)Person(name:felt,wallet:felt)Post(title:felt,content:felt)">>,
     <<"TD", "V1", "Mail", "\"Mail\"(\"from\":\"Person\",\"to\":\"Person\",\"contents\":\"felt\")\"Person\"(\"name\":\"felt\",\"wallet\":\"felt\")">>}

\* types that refer to each other in a cycle, and whose visitation order is neither
\* alphabetical nor the order of any one listing
Thread ==
    <<Declaration("Thread", <<Field("first", "Reply", FALSE), Field("author", "Person", FALSE), Field("replies", "Reply", TRUE)>>),
      Declaration("Reply", <<Field("body", "String", FALSE), Field("parent", "Thread", FALSE), Field("author", "Person", FALSE)>>),
      Person, String>>

\* a declaration that refers to a type nobody declares
Dangling == <<Declaration("Mail", <<Field("from", "Person", FALSE)>>)>>

\* _make_typed_data(included_type, revision)
make_typed_data_types(included_type, revision) == <<DomainType(revision), Declaration(included_type, <<>>)>>

Orderings(seq) ==
    {[i \in 1..Len(seq) |-> seq[p[i]]] :
        p \in {q \in [1..Len(seq) -> 1..Len(seq)] : \A i, j \in 1..Len(seq) : q[i] = q[j] => i = j}}

\* the arguments of the constructor: types, primary_type, revision
TypedDataArguments ==
    UNION {
        {<<types, "Mail", revision>> :
            types \in UNION {Orderings(<<DomainType(revision)>> \o CasesTypes[example]) : example \in DOMAIN CasesTypes}}
        \cup {<<types, "Thread", revision>> : types \in Orderings(Thread)}
        \cup {<<types, "Mail", revision>> : types \in Orderings(<<DomainType(revision)>> \o Dangling)}
        \cup UNION {{<<types, ReservedTypeNames[k], revision>> :
                        types \in Orderings(make_typed_data_types(ReservedTypeNames[k], revision))}
                     : k \in 1..Len(ReservedTypeNames)}
        \cup {<<types, "Mail", revision>> :
                types \in UNION {Orderings(CasesTypes.TD \o <<Declaration(ReservedTypeNames[k], <<>>)>>) : k \in 1..Len(ReservedTypeNames)}}
        : revision \in Revision}

NoTypedOutput == [method |-> "none", argument |-> "", value |-> <<>>]

InitTyped ==
    /\ \E arguments \in TypedDataArguments :
          typed_data = [state |-> "arguments", types |-> arguments[1], primary_type |-> arguments[2], revision |-> arguments[3], error |-> <<>>]
    /\ td_output = NoTypedOutput
    /\ IdleTransactions
    /\ data = <<>> /\ codec_error = "none" /\ codec_calls = <<>>
    /\ hex_input = <<>> /\ hex_output = <<>>

\* TypedData(types=..., primary_type=..., domain=..., message=...)
Construct ==
    /\ typed_data.state = "arguments"
    /\ typed_data' = TypedData_init(typed_data.types, typed_data.primary_type, typed_data.revision)
    /\ UNCHANGED <<td_output, tx_vars, pair_vars, codec_vars, hex_vars>>

\* typed_data._encode_type(type_name)
EncodeType ==
    /\ typed_data.state = "constructed"
    /\ \E type_name \in DeclaredNames(typed_data.types) :
          td_output' = [method |-> "encode_type", argument |-> type_name,
                        value |-> encode_type(typed_data.types, type_name, typed_data.revision)]
    /\ UNCHANGED <<typed_data, tx_vars, pair_vars, codec_vars, hex_vars>>

\* typed_data.type_hash(type_name)
TypeHash ==
    /\ typed_data.state = "constructed"
    /\ \E type_name \in DeclaredNames(typed_data.types) :
          td_output' = [method |-> "type_hash", argument |-> type_name,
                        value |-> type_hash(typed_data.types, type_name, typed_data.revision)]
    /\ UNCHANGED <<typed_data, tx_vars, pair_vars, codec_vars, hex_vars>>

NextTyped == Construct \/ EncodeType \/ TypeHash

SpecTyped == InitTyped /\ [][NextTyped]_vars

(***************************************************************************)
(* Properties of SpecTyped.                                                *)
(***************************************************************************)
C7_ReservedDeclared == Elements(ReservedTypeNames) \cap DeclaredNames(typed_data.types)

\* C7: a TypedData whose types declare one of the reserved names felt, felt*, string,
\* selector is never constructed, under revision V0 as under V1: the constructor
\* rejects it with "Reserved type name: <name>" for a reserved name it declares, and
\* no encoding or hash of it is ever returned.
C7_ReservedNameRejected ==
    C7_ReservedDeclared # {} =>
        /\ typed_data.state \in {"arguments", "rejected"}
        /\ typed_data.state = "rejected" =>
              /\ Len(typed_data.error) = 2
              /\ typed_data.error[1] = "Reserved type name"
              /\ typed_data.error[2] \in C7_ReservedDeclared
        /\ td_output = NoTypedOutput

C7_Witness ==
    /\ typed_data.state = "rejected"
    /\ typed_data.revision = "V0"
    /\ typed_data.error = <<"Reserved type name", "felt*">>
    /\ typed_data.types[1].name = "felt*"

\* the declared types that the fields of a type refer to, in declaration order
C8_Referenced(types, name) ==
    SelectSeq([i \in 1..Len(FieldsOf(types, name)) |-> FieldsOf(types, name)[i].type.base],
              LAMBDA t : t \in DeclaredNames(types))

\* depth-first order, built one type at a time: the next type is the first one not
\* yet listed that the most recently listed type with such a reference refers to
RECURSIVE C8_Extend(_, _)
C8_Extend(types, order) ==
    LET Pending(q) == SelectSeq(C8_Referenced(types, order[q]), LAMBDA t : t \notin Elements(order))
        open == {q \in 1..Len(order) : Pending(q) # <<>>}
    IN  IF open = {} THEN order
        ELSE C8_Extend(types, Append(order, Pending(CHOOSE q \in open : \A r \in open : r <= q)[1]))

C8_Order(types, root) == C8_Extend(types, <<root>>)

\* the types reachable from the root through field declarations
C8_Closure(types, root) ==
    LET Reach[n \in 0..Len(types)] ==
            IF n = 0 THEN {root}
            ELSE Reach[n - 1] \cup UNION {Elements(C8_Referenced(types, t)) : t \in Reach[n - 1]}
    IN  Reach[Len(types)]

\* C8: encode_type(root) is the blocks of the root's dependency closure, one block per
\* type, the root first and no type twice, in depth-first visitation order over the
\* field declarations; listing the types mapping in any other order gives the same
\* string; the encodings of the example files are the ones of test_encode_type.
C8_EncodeTypeOrder ==
    td_output.method = "encode_type" =>
        LET types == typed_data.types
            root == td_output.argument
            order == C8_Order(types, root)
        IN  /\ order[1] = root
            /\ Elements(order) = C8_Closure(types, root)
            /\ \A i, j \in 1..Len(order) : order[i] = order[j] => i = j
            /\ td_output.value = encode_blocks(types, order, 1, typed_data.revision)
            /\ \A listing \in Orderings(types) :
                  encode_type(listing, root, typed_data.revision) = td_output.value
            /\ \A case \in test_encode_type_cases :
                  /\ types \in Orderings(<<DomainType(case[2])>> \o CasesTypes[case[1]])
                  /\ typed_data.revision = case[2]
                  /\ root = case[3]
                  => td_output.value = case[4]

C8_Witness ==
    /\ td_output.method = "encode_type"
    /\ td_output.argument = "Thread"
    /\ typed_data.types[1].name = "String"
    /\ typed_data.types[2].name = "Person"
    /\ td_output.value = "Thread(first:Reply,author:Person,replies:Reply*)Reply(body:String,parent:Thread,author:Person)String(len:felt,data:felt*)Person(name:felt,wallet:felt)"

====
